---- MODULE Spec2Model ----
(***************************************************************************)
(* Model of the research-to-document pipeline of the Company Research      *)
(* Assistant: Source Collector (app/researcher.py), Synthesizer            *)
(* (app/synthesizer.py), Document Generator and Editor                     *)
(* (app/account_plan.py) and the session store and request handlers of     *)
(* app/main.py.                                                            *)
(***************************************************************************)
EXTENDS Integers, Sequences, FiniteSets, TLC

(***************************************************************************)
(* Texts.  A Python str is a sequence of tokens; a token is a run of       *)
(* characters.  Numerals are written one character per token, so that      *)
(* float() and str() work on their digits.                                 *)
(***************************************************************************)
DigitChars == <<"0", "1", "2", "3", "4", "5", "6", "7", "8", "9">>

IsDigit(c) == \E i \in 1..10 : DigitChars[i] = c

DigitVal(c) == (CHOOSE i \in 1..10 : DigitChars[i] = c) - 1

(***************************************************************************)
(* Python floats are IEEE-754 binary64.  A positive double is              *)
(* (hi * 2^26 + lo) * 2^(e - 52) with a 53-bit significand split in two     *)
(* limbs (hi in [2^26, 2^27), lo in [0, 2^26)); zero has hi = lo = 0.       *)
(* The limbs keep every intermediate result below 2^31.                    *)
(***************************************************************************)
Limb == 67108864

FZero == [hi |-> 0, lo |-> 0, e |-> 0]

RECURSIVE Pow2(_)
Pow2(n) == IF n = 0 THEN 1 ELSE 2 * Pow2(n - 1)

\* significand + 1, on limbs
IncSig(m) ==
    IF m.lo + 1 = Limb THEN [hi |-> m.hi + 1, lo |-> 0]
    ELSE [hi |-> m.hi, lo |-> m.lo + 1]

\* rounding away from zero whenever a digit was shifted out
RoundSig_up(m, e, r, s) ==
    IF r = 1 \/ s = 1
    THEN LET u == IncSig(m)
         IN  IF u.hi = 2 * Limb THEN [hi |-> Limb, lo |-> 0, e |-> e + 1]
             ELSE [hi |-> u.hi, lo |-> u.lo, e |-> e]
    ELSE [hi |-> m.hi, lo |-> m.lo, e |-> e]

\* round-half-even of a 53-bit significand with round bit r and sticky bit s;
\* a carry out of the significand renormalises to the next binade
RoundSig(m, e, r, s) ==
    IF r = 1 /\ (s = 1 \/ m.lo % 2 = 1)
    THEN LET u == IncSig(m)
         IN  IF u.hi = 2 * Limb THEN [hi |-> Limb, lo |-> 0, e |-> e + 1]
             ELSE [hi |-> u.hi, lo |-> u.lo, e |-> e]
    ELSE [hi |-> m.hi, lo |-> m.lo, e |-> e]

\* position of the leading binary digit of a positive natural number
RECURSIVE Log2(_)
Log2(n) == IF n <= 1 THEN 0 ELSE 1 + Log2(n \div 2)

\* value of a digit string as a natural number (integer parts stay small)
RECURSIVE NatOfDigits(_)
NatOfDigits(ds) ==
    IF ds = <<>> THEN 0
    ELSE 10 * NatOfDigits(SubSeq(ds, 1, Len(ds) - 1)) + ds[Len(ds)]

\* the decimal fraction 0.d1 d2 ... dn times f (f <= 2^26): the integer
\* part as carry, the fraction part as digits
RECURSIVE MulFrac(_, _)
MulFrac(ds, f) ==
    IF ds = <<>> THEN [carry |-> 0, digits |-> <<>>]
    ELSE LET rest == MulFrac(Tail(ds), f)
             v    == f * Head(ds) + rest.carry
         IN  [carry |-> v \div 10, digits |-> <<v % 10>> \o rest.digits]

AllZero(ds) == \A i \in 1..Len(ds) : ds[i] = 0

\* Correctly rounded binary64 value of (ip + 0.frac) * 2^(e - k) for ip >= 1
\* with leading binary digit at position k: 26 - k, 26 and 1 further binary
\* digits of the fraction give the high limb, the low limb and the round
\* bit; what is left of the fraction is the sticky bit.
ParseFrom(ip, frac, k, e) ==
    LET c1 == MulFrac(frac, Pow2(26 - k))
        c2 == MulFrac(c1.digits, Limb)
        c3 == MulFrac(c2.digits, 2)
    IN  RoundSig([hi |-> ip * Pow2(26 - k) + c1.carry, lo |-> c2.carry], e,
                 c3.carry, IF AllZero(c3.digits) THEN 0 ELSE 1)

\* a non-zero fraction below 1 is doubled until its leading binary digit
\* comes out
RECURSIVE ParseSmall(_, _)
ParseSmall(frac, e) ==
    LET d == MulFrac(frac, 2)
    IN  IF d.carry = 1 THEN ParseFrom(1, d.digits, 0, e - 1)
        ELSE ParseSmall(d.digits, e - 1)

\* the double nearest to the decimal intDigits . fracDigits
FloatOfDecimal(intDigits, fracDigits) ==
    LET ip == NatOfDigits(intDigits)
    IN  IF ip >= 1 THEN ParseFrom(ip, fracDigits, Log2(ip), Log2(ip))
        ELSE IF AllZero(fracDigits) THEN FZero
        ELSE ParseSmall(fracDigits, 0)

\* a significand shifted right by k binary digits; r is the last digit shifted
\* out and s tells whether any digit shifted out before it was non-zero
RECURSIVE ShiftOut(_, _, _, _)
ShiftOut(m, k, r, s) ==
    IF k = 0 THEN [hi |-> m.hi, lo |-> m.lo, r |-> r, s |-> s]
    ELSE LET c   == IF k > 26 THEN 26 ELSE k
             out == m.lo % Pow2(c)
         IN  ShiftOut([hi |-> m.hi \div Pow2(c),
                       lo |-> (m.lo \div Pow2(c)) + (m.hi % Pow2(c)) * Pow2(26 - c)],
                      k - c,
                      out \div Pow2(c - 1),
                      IF s = 1 \/ r = 1 \/ out % Pow2(c - 1) # 0 THEN 1 ELSE 0)

\* x + y for doubles x >= y > 0 (IEEE-754 addition, round-half-even)
AddOrdered(x, y) ==
    LET t   == ShiftOut(y, x.e - y.e, 0, 0)
        lo  == x.lo + t.lo
        sum == [hi |-> x.hi + t.hi + (lo \div Limb), lo |-> lo % Limb]
    IN  IF sum.hi >= 2 * Limb
        THEN LET u == ShiftOut(sum, 1, t.r, t.s)
             IN  RoundSig(u, x.e + 1, u.r, u.s)
        ELSE RoundSig(sum, x.e, t.r, t.s)

\* a + b for non-negative doubles
FloatAdd(a, b) ==
    IF a.hi = 0 THEN b
    ELSE IF b.hi = 0 THEN a
    ELSE IF a.e >= b.e THEN AddOrdered(a, b) ELSE AddOrdered(b, a)

\* float(n) for a small natural number n
FloatOfNat(n) ==
    IF n = 0 THEN FZero
    ELSE [hi |-> n * Pow2(26 - Log2(n)), lo |-> 0, e |-> Log2(n)]

\* the literal 0.1 of update_section
OneTenth == FloatOfDecimal(<<0>>, <<1>>)

(***************************************************************************)
(* str(float): the shortest decimal that float() reads back as the same    *)
(* double, with at least one fraction digit (float.__repr__); defined here *)
(* for 1 <= d < 32.  A double d lies in [ip, ip + 1) with fraction F / 2^52 *)
(* (F on two limbs); after j fraction digits the remainder is F_j, and the *)
(* j-digit decimal below d, or above d, reads back as d when it is less    *)
(* than half a unit in the last place, 2^(e - 53), away from d.            *)
(***************************************************************************)
IntPart(d) == d.hi \div Pow2(26 - d.e)

FracPart(d) ==
    [hi |-> (d.hi % Pow2(26 - d.e)) * Pow2(d.e) + ((d.lo * Pow2(d.e)) \div Limb),
     lo |-> (d.lo * Pow2(d.e)) % Limb]

\* two-limb comparison: -1, 0, 1
Cmp(a, b) ==
    IF a.hi < b.hi THEN -1 ELSE IF a.hi > b.hi THEN 1
    ELSE IF a.lo < b.lo THEN -1 ELSE IF a.lo > b.lo THEN 1 ELSE 0

\* 2 * f and 2 * (2^52 - f) for f < 2^52
Twice(f) == [hi |-> 2 * f.hi + ((2 * f.lo) \div Limb), lo |-> (2 * f.lo) % Limb]

Complement(f) ==
    IF f.lo = 0 THEN [hi |-> Limb - f.hi, lo |-> 0]
    ELSE [hi |-> Limb - f.hi - 1, lo |-> Limb - f.lo]

\* p * 10, saturating at 2^53 (big): every doubled remainder is below 2^53
TimesTen(p) ==
    IF p.big THEN p
    ELSE LET l == 10 * p.lo
             h == 10 * p.hi + (l \div Limb)
         IN  IF h >= 2 * Limb THEN [hi |-> 0, lo |-> 0, big |-> TRUE]
             ELSE [hi |-> h, lo |-> l % Limb, big |-> FALSE]

\* whether a decimal at distance dist / (2^52 * 10^j) from d reads back as d,
\* where p = 2^e * 10^j; a decimal exactly half way reads back as the double
\* with the even significand
Within(dist, p, even) ==
    p.big \/ Cmp(Twice(dist), p) < 0 \/ (even /\ Cmp(Twice(dist), p) = 0)

\* a digit string plus one unit in its last place: <<carry out, digits>>
RECURSIVE IncDigits(_)
IncDigits(ds) ==
    IF ds = <<>> THEN [carry |-> 1, digits |-> <<>>]
    ELSE LET rest == IncDigits(Tail(ds))
             v    == Head(ds) + rest.carry
         IN  [carry |-> v \div 10, digits |-> <<v % 10>> \o rest.digits]

\* the fraction digits of the shortest decimal: ds are the digits taken so
\* far, f the remainder after them, p = 2^e * 10^Len(ds)
RECURSIVE ShortestFrom(_, _, _, _, _)
ShortestFrom(ip, ds, f, p, even) ==
    LET l      == 10 * f.lo
        h      == 10 * f.hi + (l \div Limb)
        ds1    == Append(ds, h \div Limb)
        f1     == [hi |-> h % Limb, lo |-> l % Limb]
        p1     == TimesTen(p)
        downOk == Within(f1, p1, even)
        upOk   == Within(Complement(f1), p1, even)
        up     == IncDigits(ds1)
        upDec  == [ip |-> ip + up.carry, frac |-> up.digits]
        dnDec  == [ip |-> ip, frac |-> ds1]
    IN  IF downOk /\ upOk
        THEN IF Cmp(f1, Complement(f1)) <= 0 THEN dnDec ELSE upDec
        ELSE IF downOk THEN dnDec
        ELSE IF upOk THEN upDec
        ELSE ShortestFrom(ip, ds1, f1, p1, even)

ShortestDecimal(d) ==
    ShortestFrom(IntPart(d), <<>>, FracPart(d),
                 [hi |-> 0, lo |-> Pow2(d.e), big |-> FALSE], d.lo % 2 = 0)

\* decimal digits of a natural number
RECURSIVE DigitsOfNat(_)
DigitsOfNat(n) ==
    IF n < 10 THEN <<n>> ELSE Append(DigitsOfNat(n \div 10), n % 10)

CharsOf(ds) == [i \in 1..Len(ds) |-> DigitChars[ds[i] + 1]]

\* str(d)
FloatStr(d) ==
    LET dec == ShortestDecimal(d)
    IN  CharsOf(DigitsOfNat(dec.ip)) \o <<".">> \o CharsOf(dec.frac)

(***************************************************************************)
(* JSON values (Python dict, list, str, int, None).  Every value has the   *)
(* same fields so that any two values can be compared: items is the        *)
(* mapping of a dict, elems the elements of a list, text the tokens of a   *)
(* str and n the value of an int.                                          *)
(***************************************************************************)
EmptyMap == [k \in {} |-> 0]

Dict(f) == [kind |-> "dict", items |-> f, elems |-> <<>>, text |-> <<>>, n |-> 0]

List(xs) == [kind |-> "list", items |-> EmptyMap, elems |-> xs, text |-> <<>>, n |-> 0]

Str(t) == [kind |-> "str", items |-> EmptyMap, elems |-> <<>>, text |-> t, n |-> 0]

Num(i) == [kind |-> "int", items |-> EmptyMap, elems |-> <<>>, text |-> <<>>, n |-> i]

None == [kind |-> "null", items |-> EmptyMap, elems |-> <<>>, text |-> <<>>, n |-> 0]

Has(d, key) == d.kind = "dict" /\ key \in DOMAIN d.items

\* d[key] = v on a dict
SetItem(d, key, v) ==
    Dict([k \in DOMAIN d.items \cup {key} |-> IF k = key THEN v ELSE d.items[k]])

\* d.get(key, default) on a dict
Get(d, key, default) == IF key \in DOMAIN d.items THEN d.items[key] ELSE default

\* bool(v): the truth value Python gives a JSON value
Truthy(v) ==
    CASE v.kind = "dict" -> DOMAIN v.items # {}
      [] v.kind = "list" -> v.elems # <<>>
      [] v.kind = "str"  -> v.text # <<>>
      [] v.kind = "int"  -> v.n # 0
      [] OTHER           -> FALSE

(***************************************************************************)
(* float(v) of update_section: a str is read as a decimal numeral (digits  *)
(* with at most one point; anything else is a ValueError), an int is       *)
(* converted exactly, every other value is a TypeError.                    *)
(***************************************************************************)
IsNumeral(t) ==
    /\ \A i \in 1..Len(t) : IsDigit(t[i]) \/ t[i] = "."
    /\ Cardinality({i \in 1..Len(t) : t[i] = "."}) <= 1
    /\ \E i \in 1..Len(t) : IsDigit(t[i])

PointAt(t) ==
    IF \E i \in 1..Len(t) : t[i] = "."
    THEN CHOOSE i \in 1..Len(t) : t[i] = "."
    ELSE Len(t) + 1

DigitsIn(t, from, to) == [i \in 1..(to - from + 1) |-> DigitVal(t[from + i - 1])]

FloatOfText(t) ==
    FloatOfDecimal(DigitsIn(t, 1, PointAt(t) - 1), DigitsIn(t, PointAt(t) + 1, Len(t)))

ToFloat(v) ==
    CASE v.kind = "str" /\ IsNumeral(v.text) -> [raised |-> "", value |-> FloatOfText(v.text)]
      [] v.kind = "str"                      -> [raised |-> "ValueError", value |-> FZero]
      [] v.kind = "int"                      -> [raised |-> "", value |-> FloatOfNat(v.n)]
      [] OTHER                               -> [raised |-> "TypeError", value |-> FZero]

\* datetime.now().isoformat() at clock reading t
IsoFormat(t) == Str(<<"T">> \o CharsOf(DigitsOfNat(t)))

(***************************************************************************)
(* Completion Provider responses.  A response is a sequence of tokens:     *)
(* "fence" (three backticks), "json" (the four characters), "ws" (white     *)
(* space), "prose" (any other text) and "value" (the text of one JSON       *)
(* document, carried as the value it denotes).                             *)
(***************************************************************************)
Tok(t) == [tok |-> t, value |-> None]

ValueTok(v) == [tok |-> "value", value |-> v]

\* str.strip()
RECURSIVE LStrip(_)
LStrip(ts) == IF ts # <<>> /\ Head(ts).tok = "ws" THEN LStrip(Tail(ts)) ELSE ts

RECURSIVE RStrip(_)
RStrip(ts) ==
    IF ts # <<>> /\ ts[Len(ts)].tok = "ws" THEN RStrip(SubSeq(ts, 1, Len(ts) - 1)) ELSE ts

Strip(ts) == RStrip(LStrip(ts))

\* the tokens before the first fence
RECURSIVE UpToFence(_)
UpToFence(ts) ==
    IF ts = <<>> \/ Head(ts).tok = "fence" THEN <<>>
    ELSE <<Head(ts)>> \o UpToFence(Tail(ts))

\* the second piece of result split at the fences, for a result that starts
\* with a fence
AfterFirstFence(ts) == UpToFence(Tail(ts))

\* Remove markdown code blocks if present: the same lines in
\* synthesize_research, identify_conflicts and generate_plan
Unfence(result) ==
    IF result # <<>> /\ Head(result).tok = "fence"
    THEN LET seg == AfterFirstFence(result)
         IN  Strip(IF seg # <<>> /\ Head(seg).tok = "json" THEN Tail(seg) ELSE seg)
    ELSE result

\* json.loads
Loads(ts) ==
    IF Len(ts) = 1 /\ ts[1].tok = "value"
    THEN [raised |-> "", value |-> ts[1].value]
    ELSE [raised |-> "JSONDecodeError", value |-> None]

\* the completion call and the parse of its response; the provider either
\* raises or returns a text
ParseCompletion(outcome) ==
    IF outcome.kind = "error" THEN [raised |-> "APIError", value |-> None]
    ELSE Loads(Unfence(Strip(outcome.text)))

(***************************************************************************)
(* Document Editor and Generator (app/account_plan.py)                     *)
(***************************************************************************)
\* section_path.split on the dot: the path is a sequence of tokens, each the
\* dot or a run of other characters
RECURSIVE SplitFrom(_, _)
SplitFrom(tokens, cur) ==
    IF tokens = <<>> THEN <<cur>>
    ELSE IF Head(tokens) = "." THEN <<cur>> \o SplitFrom(Tail(tokens), "")
    ELSE SplitFrom(Tail(tokens), cur \o Head(tokens))

Split(path) == SplitFrom(path, "")

\* the walk of update_section rebuilding each mapping it enters from the one
\* key it follows
RECURSIVE Upsert_dropping(_, _, _)
Upsert_dropping(current, keys, new_content) ==
    IF current.kind # "dict" THEN [raised |-> "TypeError", value |-> current]
    ELSE IF Len(keys) = 1
    THEN [raised |-> "", value |-> SetItem(current, keys[1], new_content)]
    ELSE LET key   == Head(keys)
             child == IF Has(current, key) THEN current.items[key] ELSE Dict(EmptyMap)
             r     == Upsert_dropping(child, Tail(keys), new_content)
         IN  [raised |-> r.raised, value |-> SetItem(Dict(EmptyMap), key, r.value)]

\* The walk and the write of update_section on the value current: every
\* key but the last is created as {} when absent and then entered; the last
\* key is assigned.  Membership test, item access and item assignment with a
\* str key on anything but a dict end in a TypeError.
RECURSIVE Upsert(_, _, _)
Upsert(current, keys, new_content) ==
    IF current.kind # "dict" THEN [raised |-> "TypeError", value |-> current]
    ELSE IF Len(keys) = 1
    THEN [raised |-> "", value |-> SetItem(current, keys[1], new_content)]
    ELSE LET key   == Head(keys)
             child == IF Has(current, key) THEN current.items[key] ELSE Dict(EmptyMap)
             r     == Upsert(child, Tail(keys), new_content)
         IN  [raised |-> r.raised, value |-> SetItem(current, key, r.value)]

\* the metadata update of update_section, on the plan after the write
Stamp(plan, now) ==
    LET p0 == IF Has(plan, "metadata") THEN plan
              ELSE SetItem(plan, "metadata", Dict(EmptyMap))
        md == p0.items["metadata"]
        m1 == SetItem(md, "last_updated", IsoFormat(now))
        p1 == SetItem(p0, "metadata", m1)
        f  == ToFloat(Get(m1, "version", Str(<<"1", ".", "0">>)))
    IN  IF md.kind # "dict" THEN [raised |-> "TypeError", plan |-> p0]
        ELSE IF f.raised # "" THEN [raised |-> f.raised, plan |-> p1]
        ELSE [raised |-> "",
              plan |-> SetItem(p1, "metadata",
                          SetItem(m1, "version", Str(FloatStr(FloatAdd(f.value, OneTenth)))))]

\* update_section edits account_plan in place: plan is the document as the
\* call leaves it, also when it raises
update_section(account_plan, section_path, new_content, now) ==
    LET w == Upsert(account_plan, Split(section_path), new_content)
    IN  IF w.raised # "" THEN [raised |-> w.raised, plan |-> w.value]
        ELSE Stamp(w.value, now)

\* the try block of generate_plan keeping the metadata keys of the provider
PlanTry_merging(company_name, outcome, now) ==
    LET r    == ParseCompletion(outcome)
        base == IF Has(r.value, "metadata") /\ r.value.items["metadata"].kind = "dict"
                THEN r.value.items["metadata"] ELSE Dict(EmptyMap)
    IN  IF r.raised # "" THEN r
        ELSE IF r.value.kind # "dict" THEN [raised |-> "TypeError", value |-> None]
        ELSE [raised |-> "",
              value  |-> SetItem(r.value, "metadata",
                            SetItem(SetItem(SetItem(base, "company_name", Str(company_name)),
                                            "generated_at", IsoFormat(now)),
                                    "version", Str(<<"1", ".", "0">>)))]

\* the try block of generate_plan: the completion request, the parse and the
\* assignment of the metadata block, which replaces a metadata key of the
\* parsed object and raises on a value that is not an object
PlanTry(company_name, outcome, now) ==
    LET r == ParseCompletion(outcome)
    IN  IF r.raised # "" THEN r
        ELSE IF r.value.kind # "dict" THEN [raised |-> "TypeError", value |-> None]
        ELSE [raised |-> "",
              value  |-> SetItem(r.value, "metadata",
                            Dict([k \in {"company_name", "generated_at", "version"} |->
                                     CASE k = "company_name" -> Str(company_name)
                                       [] k = "generated_at" -> IsoFormat(now)
                                       [] OTHER              -> Str(<<"1", ".", "0">>)]))]

\* the document of the except block of generate_plan
DegradedPlan(company_name, now) ==
    Dict([k \in {"error", "metadata"} |->
             IF k = "error" THEN Str(<<"Plan generation failed">>)
             ELSE Dict([j \in {"company_name", "generated_at"} |->
                           IF j = "company_name" THEN Str(company_name)
                           ELSE IsoFormat(now)])])

\* generate_plan: except Exception catches whatever the try block raises
generate_plan(company_name, outcome, now) ==
    LET t == PlanTry(company_name, outcome, now)
    IN  [raised   |-> "",
         requests |-> 1,
         plan     |-> IF t.raised = "" THEN t.value ELSE DegradedPlan(company_name, now)]

(***************************************************************************)
(* Source Collector (app/researcher.py)                                    *)
(***************************************************************************)
\* Settings.max_research_sources
max_sources == 5

\* the five query templates of research_company, in their order
queries ==
    <<"company overview", "products services", "recent news",
      "market position competitors", "financial performance revenue">>

\* search_web returning no record for a failed query
search_web_dropping(query, outcome) ==
    IF outcome.kind = "results"
    THEN [raised  |-> "",
          results |-> [i \in 1..(IF outcome.n < max_sources THEN outcome.n
                                 ELSE max_sources) |->
                          [error |-> FALSE, query |-> query, rank |-> i]]]
    ELSE [raised |-> "", results |-> <<>>]

\* search_web keeping every organic result
search_web_unbounded(query, outcome) ==
    IF outcome.kind = "results"
    THEN [raised  |-> "",
          results |-> [i \in 1..outcome.n |->
                          [error |-> FALSE, query |-> query, rank |-> i]]]
    ELSE [raised  |-> "",
          results |-> <<[error |-> TRUE, query |-> query, rank |-> 0]>>]

\* search_web: the Search Provider raises (error), returns a payload whose
\* formatting raises (malformed) or returns n organic results, of which the
\* first max_sources are kept; except Exception turns a failure into one
\* error record
search_web(query, outcome) ==
    IF outcome.kind = "results"
    THEN [raised  |-> "",
          results |-> [i \in 1..(IF outcome.n < max_sources THEN outcome.n
                                 ELSE max_sources) |->
                          [error |-> FALSE, query |-> query, rank |-> i]]]
    ELSE [raised  |-> "",
          results |-> <<[error |-> TRUE, query |-> query, rank |-> 0]>>]

\* the loop of research_company sending a failed query a second time
RECURSIVE SearchFrom_retrying(_, _)
SearchFrom_retrying(q, outcomes) ==
    IF q > Len(queries) THEN [raised |-> "", all_results |-> <<>>, sent |-> <<>>]
    ELSE LET found == search_web(queries[q], outcomes[q])
             rest  == SearchFrom_retrying(q + 1, outcomes)
         IN  [raised      |-> rest.raised,
              all_results |-> found.results \o rest.all_results,
              sent        |-> (IF outcomes[q].kind = "results" THEN <<queries[q]>>
                               ELSE <<queries[q], queries[q]>>) \o rest.sent]

\* the loop of research_company from query number q on: the records found
\* and the queries sent; an exception out of search_web would end the loop
RECURSIVE SearchFrom(_, _)
SearchFrom(q, outcomes) ==
    IF q > Len(queries) THEN [raised |-> "", all_results |-> <<>>, sent |-> <<>>]
    ELSE LET found == search_web(queries[q], outcomes[q])
             rest  == SearchFrom(q + 1, outcomes)
         IN  IF found.raised # ""
             THEN [raised |-> found.raised, all_results |-> <<>>, sent |-> <<queries[q]>>]
             ELSE [raised      |-> rest.raised,
                   all_results |-> found.results \o rest.all_results,
                   sent        |-> <<queries[q]>> \o rest.sent]

\* research_company: the Research Batch and the queries sent for it
research_company(company_name, outcomes) ==
    LET r == SearchFrom(1, outcomes)
    IN  [raised        |-> r.raised,
         research_data |-> [company_name  |-> company_name,
                            sources       |-> r.all_results,
                            total_sources |-> Len(r.all_results)],
         sent          |-> r.sent]

(***************************************************************************)
(* Synthesizer (app/synthesizer.py)                                        *)
(***************************************************************************)
\* the sources that reach a prompt: those without an error key
Usable(sources) == SelectSeq(sources, LAMBDA src : ~src.error)

\* the try block of synthesize_research: the completion request, the parse
\* and the assignment of sources_analyzed, which raises on a value that is
\* not an object
SynthesisTry(sources, outcome) ==
    LET r == ParseCompletion(outcome)
    IN  IF r.raised # "" THEN r
        ELSE IF r.value.kind # "dict" THEN [raised |-> "TypeError", value |-> None]
        ELSE [raised |-> "",
              value  |-> SetItem(r.value, "sources_analyzed", Num(Len(sources)))]

\* the record of the except block of synthesize_research
DegradedSynthesis(sources) ==
    Dict([k \in {"error", "company_overview", "sources_analyzed"} |->
             CASE k = "error" -> Str(<<"Synthesis failed">>)
               [] k = "company_overview" -> Str(<<"Unable to synthesize data">>)
               [] OTHER -> Num(Len(sources))])

\* synthesize_research with an except clause that lets a TypeError through
synthesize_research_narrow(research_data, outcome) ==
    LET sources == research_data.sources
        t       == SynthesisTry(sources, outcome)
    IN  [raised   |-> IF t.raised = "TypeError" THEN "TypeError" ELSE "",
         requests |-> 1,
         prompt   |-> Usable(sources),
         result   |-> IF t.raised = "" THEN t.value
                      ELSE IF t.raised = "TypeError" THEN None
                      ELSE DegradedSynthesis(sources)]

\* synthesize_research: the prompt carries the usable sources; except
\* Exception catches whatever the try block raises
synthesize_research(research_data, outcome) ==
    LET sources == research_data.sources
        t       == SynthesisTry(sources, outcome)
    IN  [raised   |-> "",
         requests |-> 1,
         prompt   |-> Usable(sources),
         result   |-> IF t.raised = "" THEN t.value ELSE DegradedSynthesis(sources)]

\* identify_conflicts returning whatever the parse gives
identify_conflicts_unchecked(research_data, outcome) ==
    LET sources == research_data.sources
        r       == ParseCompletion(outcome)
    IN  IF Len(sources) < 2
        THEN [raised |-> "", requests |-> 0, prompt |-> <<>>, result |-> List(<<>>)]
        ELSE [raised   |-> "",
              requests |-> 1,
              prompt   |-> Usable(sources),
              result   |->
                 IF r.raised # "" THEN List(<<Str(<<"Error identifying conflicts">>)>>)
                 ELSE r.value]

\* identify_conflicts: no request below two sources; otherwise one completion
\* request whose parsed list is returned, a parsed non-list gives [] and a
\* provider or parse error gives one error string
identify_conflicts(research_data, outcome) ==
    LET sources == research_data.sources
        r       == ParseCompletion(outcome)
    IN  IF Len(sources) < 2
        THEN [raised |-> "", requests |-> 0, prompt |-> <<>>, result |-> List(<<>>)]
        ELSE [raised   |-> "",
              requests |-> 1,
              prompt   |-> Usable(sources),
              result   |->
                 IF r.raised # "" THEN List(<<Str(<<"Error identifying conflicts">>)>>)
                 ELSE IF r.value.kind = "list" THEN r.value
                 ELSE List(<<>>)]

\* the keys of a mapping, in some order
RECURSIVE KeysOf(_)
KeysOf(keys) ==
    IF keys = {} THEN <<>>
    ELSE LET k == CHOOSE x \in keys : TRUE
         IN  <<Str(<<k>>)>> \o KeysOf(keys \ {k})

(***************************************************************************)
(* json.dump and json.load of save_plan and load_plan.  The text of a file *)
(* is a sequence of tokens: punctuation, string literals, numerals (their  *)
(* decimal digits) and null.                                               *)
(***************************************************************************)
Punct(p) == [t |-> p, text |-> <<>>]

StrLit(text) == [t |-> "str", text |-> text]

Numeral(n) == [t |-> "num", text |-> CharsOf(DigitsOfNat(n))]

\* json.dumps: the members of a dict and the elements of a list are
\* separated by commas
RECURSIVE Dumps(_)
Dumps(v) ==
    LET Members(keys) ==
            [i \in 1..Len(keys) |->
                (IF i = 1 THEN <<>> ELSE <<Punct(",")>>)
                \o <<StrLit(keys[i].text), Punct(":")>>
                \o Dumps(v.items[keys[i].text[1]])]
        Elements ==
            [i \in 1..Len(v.elems) |->
                (IF i = 1 THEN <<>> ELSE <<Punct(",")>>) \o Dumps(v.elems[i])]
        Join(parts) ==
            LET RECURSIVE From(_)
                From(i) == IF i > Len(parts) THEN <<>> ELSE parts[i] \o From(i + 1)
            IN  From(1)
    IN  CASE v.kind = "dict" ->
                <<Punct("{")>> \o Join(Members(KeysOf(DOMAIN v.items))) \o <<Punct("}")>>
          [] v.kind = "list" -> <<Punct("[")>> \o Join(Elements) \o <<Punct("]")>>
          [] v.kind = "str"  -> <<StrLit(v.text)>>
          [] v.kind = "int"  -> <<Numeral(v.n)>>
          [] OTHER           -> <<Punct("null")>>

\* json.loads of a file: value is the value read from the front of the
\* tokens ts and rest the tokens after it
RECURSIVE ParseValue(_)
RECURSIVE ParseMembers(_, _)
RECURSIVE ParseElements(_, _)
ParseValue(ts) ==
    IF ts = <<>> THEN [raised |-> "JSONDecodeError", value |-> None, rest |-> <<>>]
    ELSE CASE Head(ts).t = "{" ->
                 IF Len(ts) >= 2 /\ ts[2].t = "}"
                 THEN [raised |-> "", value |-> Dict(EmptyMap), rest |-> Tail(Tail(ts))]
                 ELSE ParseMembers(Tail(ts), Dict(EmptyMap))
           [] Head(ts).t = "[" ->
                 IF Len(ts) >= 2 /\ ts[2].t = "]"
                 THEN [raised |-> "", value |-> List(<<>>), rest |-> Tail(Tail(ts))]
                 ELSE ParseElements(Tail(ts), <<>>)
           [] Head(ts).t = "str" ->
                 [raised |-> "", value |-> Str(Head(ts).text), rest |-> Tail(ts)]
           [] Head(ts).t = "num" ->
                 [raised |-> "",
                  value  |-> Num(NatOfDigits([i \in 1..Len(Head(ts).text) |->
                                                 DigitVal(Head(ts).text[i])])),
                  rest   |-> Tail(ts)]
           [] Head(ts).t = "null" -> [raised |-> "", value |-> None, rest |-> Tail(ts)]
           [] OTHER -> [raised |-> "JSONDecodeError", value |-> None, rest |-> <<>>]

ParseMembers(ts, acc) ==
    IF Len(ts) < 3 \/ ts[1].t # "str" \/ ts[2].t # ":"
    THEN [raised |-> "JSONDecodeError", value |-> None, rest |-> <<>>]
    ELSE LET r    == ParseValue(Tail(Tail(ts)))
             acc2 == SetItem(acc, ts[1].text[1], r.value)
         IN  IF r.raised # "" \/ r.rest = <<>> THEN [r EXCEPT !.raised = "JSONDecodeError"]
             ELSE IF Head(r.rest).t = "," THEN ParseMembers(Tail(r.rest), acc2)
             ELSE IF Head(r.rest).t = "}"
             THEN [raised |-> "", value |-> acc2, rest |-> Tail(r.rest)]
             ELSE [raised |-> "JSONDecodeError", value |-> None, rest |-> <<>>]

ParseElements(ts, acc) ==
    LET r == ParseValue(ts)
    IN  IF r.raised # "" \/ r.rest = <<>> THEN [r EXCEPT !.raised = "JSONDecodeError"]
        ELSE IF Head(r.rest).t = "," THEN ParseElements(Tail(r.rest), Append(acc, r.value))
        ELSE IF Head(r.rest).t = "]"
        THEN [raised |-> "", value |-> List(Append(acc, r.value)), rest |-> Tail(r.rest)]
        ELSE [raised |-> "JSONDecodeError", value |-> None, rest |-> <<>>]

\* json.load: the file holds one value and nothing after it
LoadText(ts) ==
    LET r == ParseValue(ts)
    IN  IF r.raised = "" /\ r.rest # <<>>
        THEN [raised |-> "JSONDecodeError", value |-> None]
        ELSE [raised |-> r.raised, value |-> r.value]

\* save_plan without a filename: the name joins metadata.company_name and
\* the clock reading to the second (get on a metadata that is not a dict
\* raises), and the file is opened for writing, so a file of that name is
\* replaced by the JSON text of the document
TicksPerSecond == 2

DefaultFilename(account_plan, now) ==
    [company_name |-> Get(Get(account_plan, "metadata", Dict(EmptyMap)),
                          "company_name", Str(<<"unknown">>)),
     timestamp    |-> now \div TicksPerSecond]

\* save_plan writing the str() of every top-level list
save_plan_str(dir, account_plan, now) ==
    LET filename == DefaultFilename(account_plan, now)
        written  == Dict([k \in DOMAIN account_plan.items |->
                             IF account_plan.items[k].kind = "list"
                             THEN Str(<<"list">>) ELSE account_plan.items[k]])
    IN  [raised   |-> IF Get(account_plan, "metadata", Dict(EmptyMap)).kind # "dict"
                      THEN "AttributeError" ELSE "",
         filepath |-> filename,
         dir      |-> [f \in DOMAIN dir \cup {filename} |->
                          IF f = filename THEN Dumps(written) ELSE dir[f]]]

save_plan(dir, account_plan, now) ==
    LET filename == DefaultFilename(account_plan, now)
    IN  [raised   |-> IF Get(account_plan, "metadata", Dict(EmptyMap)).kind # "dict"
                      THEN "AttributeError" ELSE "",
         filepath |-> filename,
         dir      |-> [f \in DOMAIN dir \cup {filename} |->
                          IF f = filename THEN Dumps(account_plan) ELSE dir[f]]]

\* load_plan: the value json.load reads from the file
load_plan(dir, filepath) ==
    IF filepath \in DOMAIN dir
    THEN [raised |-> LoadText(dir[filepath]).raised, plan |-> LoadText(dir[filepath]).value]
    ELSE [raised |-> "FileNotFoundError", plan |-> None]

\* what a for loop over the value v goes through: the elements of a list,
\* the characters of a str (its text is held one character per token where
\* that matters), the keys of a dict; any other value is not iterable
Iterate(v) ==
    CASE v.kind = "list" -> [raised |-> "", each |-> v.elems]
      [] v.kind = "str"  -> [raised |-> "",
                             each   |-> [i \in 1..Len(v.text) |-> Str(<<v.text[i]>>)]]
      [] v.kind = "dict" -> [raised |-> "", each |-> KeysOf(DOMAIN v.items)]
      [] OTHER           -> [raised |-> "TypeError", each |-> <<>>]

ListFields == {"products_services", "recent_developments", "key_insights", "potential_conflicts"}

\* generate_summary: one "- item" line for each thing a loop over a list
\* field goes through; potential_conflicts is rendered when it is truthy;
\* no request is sent
generate_summary(synthesized_data) ==
    LET field(k) == Get(synthesized_data, k, List(<<>>))
        shown(k) == IF k = "potential_conflicts" /\ ~Truthy(field(k))
                    THEN [raised |-> "", each |-> <<>>]
                    ELSE Iterate(field(k))
    IN  [raised   |-> IF \E k \in ListFields : shown(k).raised # ""
                      THEN "TypeError" ELSE "",
         requests |-> 0,
         lines    |-> [k \in ListFields |-> shown(k).each]]

\* generate_summary raises when it loops over a value that is not iterable
SummaryRaises(synthesized_data) == generate_summary(synthesized_data).raised # ""

(***************************************************************************)
(* Session store and request handlers (app/main.py)                        *)
(***************************************************************************)
VARIABLES
    sessions,   \* session id -> [history, context]
    files,      \* the data directory: filename -> saved document
    clock,      \* the wall clock, in ticks
    requests,   \* number of requests handled so far
    response,   \* the last request and what it was answered
    call,       \* the last call of a pipeline stage made on its own
    ws          \* session id -> the duplex channel opened on /ws/<session id>

vars == <<sessions, files, clock, requests, response, call, ws>>

SessionIds == {"s1", "s2"}

MaxClock == 2

MaxRequests == 3

\* an entry of a context is a list of at most one value
Absent == <<>>

EmptyContext == [research_data |-> Absent, synthesized_data |-> Absent, account_plan |-> Absent]

\* "Get or create session": a new ConversationalAgent and an empty context
NewSession == [history |-> <<>>, context |-> EmptyContext]

\* get-or-create that builds a session on every access
GetOrCreate_fresh(store, session_id) ==
    [s \in DOMAIN store \cup {session_id} |->
        IF s = session_id THEN NewSession ELSE store[s]]

GetOrCreate(store, session_id) ==
    IF session_id \in DOMAIN store THEN store
    ELSE [s \in DOMAIN store \cup {session_id} |->
             IF s = session_id THEN NewSession ELSE store[s]]

NoCall == [op |-> "none"]

\* a duplex channel: where its handler is suspended (pc), the local
\* variables of the research action under way, the events sent to the
\* client since the action started, and whether the session was reset
\* since then (reset_seen, kept for the properties: the code has no such
\* flag)
ClosedChannel ==
    [pc |-> "closed", company_name |-> <<>>, research_data |-> Absent,
     synthesized |-> Absent, conflicts |-> Absent, events |-> <<>>,
     reset_seen |-> FALSE]

\* the handler of the channel is suspended inside a research action
MidResearch(channel) == channel.pc \in {"researching", "synthesizing", "conflict"}

NoResponse ==
    [op |-> "none", session_id |-> "", status |-> 0, completions |-> 0,
     searches |-> 0, saved |-> <<>>, raised |-> "", conflicts |-> <<>>]

Respond(op, session_id, status) ==
    [NoResponse EXCEPT !.op = op, !.session_id = session_id, !.status = status]

Init ==
    /\ sessions = [s \in {} |-> NewSession]
    /\ files = [f \in {} |-> None]
    /\ clock = 0
    /\ requests = 0
    /\ response = NoResponse
    /\ call = NoCall
    /\ ws = [s \in SessionIds |-> ClosedChannel]

Tick ==
    /\ clock < MaxClock
    /\ clock' = clock + 1
    /\ UNCHANGED <<sessions, files, requests, response, call, ws>>

WithContext(store, session_id, key, value) ==
    [store EXCEPT ![session_id].context =
        [store[session_id].context EXCEPT ![key] = <<value>>]]

\* POST /api/chat: the session is created on first use; get_response appends
\* the user message and, when the provider answers, the assistant message
Chat(session_id, answered) ==
    LET store == GetOrCreate(sessions, session_id)
    IN  /\ requests < MaxRequests
        /\ sessions' = [store EXCEPT ![session_id].history =
                           @ \o (IF answered THEN <<"user", "assistant">> ELSE <<"user">>)]
        /\ response' = [Respond("chat", session_id, 200) EXCEPT !.completions = 2]
        /\ requests' = requests + 1
        /\ UNCHANGED <<files, clock, call, ws>>

\* POST /api/research: collect, synthesize, detect conflicts, summarise and
\* store both artifacts in the context of the session
Research(session_id, company_name, searchOutcomes, synthOutcome, conflictOutcome) ==
    LET collected   == research_company(company_name, searchOutcomes)
        syn         == synthesize_research(collected.research_data, synthOutcome)
        con         == identify_conflicts(collected.research_data, conflictOutcome)
        synthesized == IF Truthy(con.result)
                       THEN SetItem(syn.result, "potential_conflicts", con.result)
                       ELSE syn.result
        store       == GetOrCreate(sessions, session_id)
        sent        == [Respond("research", session_id, 200) EXCEPT
                           !.completions = syn.requests + con.requests,
                           !.searches = Len(collected.sent),
                           !.conflicts = <<con.result>>]
        failed      == \/ collected.raised # "" \/ syn.raised # "" \/ con.raised # ""
                       \/ SummaryRaises(synthesized)
    IN  /\ requests < MaxRequests
        /\ IF failed
           THEN /\ response' = [sent EXCEPT !.status = 500, !.raised = "Exception"]
                /\ UNCHANGED sessions
           ELSE /\ response' = sent
                /\ sessions' = WithContext(
                       WithContext(store, session_id, "research_data", collected.research_data),
                       session_id, "synthesized_data", synthesized)
        /\ requests' = requests + 1
        /\ UNCHANGED <<files, clock, call, ws>>

\* generate_account_plan checking only that the session exists
NoSynthesizedData_lax(session_id) == session_id \notin DOMAIN sessions

\* the 400 answers of generate_account_plan: unknown session, or no
\* synthesized data in its context
NoSynthesizedData(session_id) ==
    \/ session_id \notin DOMAIN sessions
    \/ sessions[session_id].context.synthesized_data = Absent
    \/ ~Truthy(sessions[session_id].context.synthesized_data[1])

\* POST /api/generate-plan: generate, save, then store in the session; the
\* write of the snapshot may fail (saveOk)
GeneratePlan(session_id, company_name, outcome, saveOk) ==
    /\ requests < MaxRequests
    /\ requests' = requests + 1
    /\ UNCHANGED <<clock, call, ws>>
    /\ IF NoSynthesizedData(session_id)
       THEN /\ response' = Respond("generate", session_id, 400)
            /\ UNCHANGED <<sessions, files>>
       ELSE LET account_plan == generate_plan(company_name, outcome, clock).plan
                saved        == save_plan(files, account_plan, clock)
                sent         == [Respond("generate", session_id, 200) EXCEPT
                                    !.completions = 1]
            IN  IF saveOk /\ saved.raised = ""
                THEN /\ files' = saved.dir
                     /\ sessions' = WithContext(sessions, session_id, "account_plan", account_plan)
                     /\ response' = [sent EXCEPT !.saved = <<saved.filepath>>]
                ELSE /\ response' = [sent EXCEPT !.status = 500, !.raised = "OSError"]
                     /\ UNCHANGED <<sessions, files>>

\* the 400 answers of update_plan_section: unknown session, or no account
\* plan in its context
NoAccountPlan(session_id) ==
    \/ session_id \notin DOMAIN sessions
    \/ sessions[session_id].context.account_plan = Absent
    \/ ~Truthy(sessions[session_id].context.account_plan[1])

\* POST /api/update-plan: update_section edits the plan held by the session
\* in place, so the session holds whatever the call left, also when it or
\* the save that follows raises
UpdatePlan(session_id, section_path, new_content, saveOk) ==
    /\ requests < MaxRequests
    /\ requests' = requests + 1
    /\ UNCHANGED <<clock, call, ws>>
    /\ IF NoAccountPlan(session_id)
       THEN /\ response' = Respond("update", session_id, 400)
            /\ UNCHANGED <<sessions, files>>
       ELSE LET account_plan == sessions[session_id].context.account_plan[1]
                updated      == update_section(account_plan, section_path, new_content, clock)
                saved        == save_plan(files, updated.plan, clock)
                sent         == Respond("update", session_id, 200)
            IN  /\ sessions' = WithContext(sessions, session_id, "account_plan", updated.plan)
                /\ IF updated.raised = "" /\ saveOk /\ saved.raised = ""
                   THEN /\ files' = saved.dir
                        /\ response' = [sent EXCEPT !.saved = <<saved.filepath>>]
                   ELSE /\ response' = [sent EXCEPT
                                           !.status = 500,
                                           !.raised = IF updated.raised # "" THEN updated.raised
                                                      ELSE "OSError"]
                        /\ UNCHANGED files

\* reset_session leaving the research batch in the context
ResetSession_keeping(session_id) ==
    /\ requests < MaxRequests
    /\ requests' = requests + 1
    /\ sessions' = IF session_id \in DOMAIN sessions
                   THEN [sessions EXCEPT ![session_id].history = <<>>,
                                         ![session_id].context.synthesized_data = Absent,
                                         ![session_id].context.account_plan = Absent]
                   ELSE sessions
    /\ response' = Respond("reset", session_id, 200)
    /\ ws' = IF MidResearch(ws[session_id])
             THEN [ws EXCEPT ![session_id].reset_seen = TRUE]
             ELSE ws
    /\ UNCHANGED <<files, clock, call>>

\* POST /api/reset-session: an existing session keeps its entry, with an
\* empty history and an empty context
ResetSession(session_id) ==
    /\ requests < MaxRequests
    /\ requests' = requests + 1
    /\ sessions' = IF session_id \in DOMAIN sessions
                   THEN [sessions EXCEPT ![session_id].history = <<>>,
                                         ![session_id].context = EmptyContext]
                   ELSE sessions
    /\ response' = Respond("reset", session_id, 200)
    /\ ws' = IF MidResearch(ws[session_id])
             THEN [ws EXCEPT ![session_id].reset_seen = TRUE]
             ELSE ws
    /\ UNCHANGED <<files, clock, call>>

(***************************************************************************)
(* The duplex channel (websocket_endpoint).  The handler runs on the event *)
(* loop: it is suspended at each await (accept, receive_text, send_json)   *)
(* and other requests run in between; the code between two awaits is one   *)
(* step.                                                                   *)
(***************************************************************************)
\* send_json delivering the event twice
Emit_twice(s, type) == [ws[s] EXCEPT !.events = @ \o <<type, type>>]

Emit(s, type) == [ws[s] EXCEPT !.events = @ \o <<type>>]

\* accept, then "Initialize session if needed", then wait for a message
WsOpen(session_id) ==
    /\ ws[session_id].pc = "closed"
    /\ requests < MaxRequests
    /\ sessions' = GetOrCreate(sessions, session_id)
    /\ ws' = [ws EXCEPT ![session_id] = [ClosedChannel EXCEPT !.pc = "receive"]]
    /\ response' = Respond("ws_open", session_id, 101)
    /\ requests' = requests + 1
    /\ UNCHANGED <<files, clock, call>>

\* WebSocketDisconnect is raised at the await the handler is suspended at
WsDisconnect(session_id) ==
    /\ ws[session_id].pc # "closed"
    /\ ws' = [ws EXCEPT ![session_id] = ClosedChannel]
    /\ response' = Respond("ws_close", session_id, 0)
    /\ UNCHANGED <<sessions, files, clock, requests, call>>

\* action "chat": get_response on the agent of the session, then the
\* response event
WsChat(session_id, answered) ==
    /\ ws[session_id].pc = "receive"
    /\ requests < MaxRequests
    /\ requests' = requests + 1
    /\ sessions' = [sessions EXCEPT ![session_id].history =
                       @ \o (IF answered THEN <<"user", "assistant">> ELSE <<"user">>)]
    /\ ws' = [ws EXCEPT ![session_id].events = <<"response">>]
    /\ response' = [Respond("ws_chat", session_id, 0) EXCEPT !.completions = 1]
    /\ UNCHANGED <<files, clock, call>>

\* action "research", up to the first status event
WsResearch(session_id, company_name) ==
    /\ ws[session_id].pc = "receive"
    /\ requests < MaxRequests
    /\ requests' = requests + 1
    /\ ws' = [ws EXCEPT ![session_id] =
                 [ClosedChannel EXCEPT !.pc = "researching",
                                       !.company_name = company_name,
                                       !.events = <<"status">>]]
    /\ response' = Respond("ws_research", session_id, 0)
    /\ UNCHANGED <<sessions, files, clock, call>>

\* "Conduct research", up to the second status event
WsCollect(session_id, searchOutcomes) ==
    LET collected == research_company(ws[session_id].company_name, searchOutcomes)
    IN  /\ ws[session_id].pc = "researching"
        /\ ws' = [ws EXCEPT ![session_id] =
                     [Emit(session_id, "status") EXCEPT
                         !.pc = "synthesizing",
                         !.research_data = <<collected.research_data>>]]
        /\ response' = [Respond("ws_research", session_id, 0) EXCEPT
                           !.searches = Len(collected.sent)]
        /\ UNCHANGED <<sessions, files, clock, requests, call>>

\* the store of the duplex handler writing to a context shared by all sessions
WsStore_shared(session_id, channel, research_data, synthesized) ==
    /\ sessions' = [s \in DOMAIN sessions |->
                       [sessions[s] EXCEPT
                           !.context.research_data = <<research_data>>,
                           !.context.synthesized_data = <<synthesized>>]]
    /\ ws' = [ws EXCEPT ![session_id] =
                 [channel EXCEPT !.pc = "receive",
                                 !.events = @ \o <<"research_complete">>,
                                 !.research_data = Absent,
                                 !.synthesized = Absent,
                                 !.conflicts = Absent]]

\* "Store in context", generate_summary and the research_complete event; a
\* summary that raises ends the handler after the store
WsStore(session_id, channel, research_data, synthesized) ==
    /\ sessions' = WithContext(
           WithContext(sessions, session_id, "research_data", research_data),
           session_id, "synthesized_data", synthesized)
    /\ ws' = [ws EXCEPT ![session_id] =
                 IF SummaryRaises(synthesized) THEN ClosedChannel
                 ELSE [channel EXCEPT !.pc = "receive",
                                      !.events = @ \o <<"research_complete">>,
                                      !.research_data = Absent,
                                      !.synthesized = Absent,
                                      !.conflicts = Absent]]

\* "Synthesize" and "Check conflicts": with conflicts the handler is
\* suspended at the conflict event, without it goes on to the store
WsSynthesize(session_id, synthOutcome, conflictOutcome) ==
    LET research_data == ws[session_id].research_data[1]
        syn == synthesize_research(research_data, synthOutcome)
        con == identify_conflicts(research_data, conflictOutcome)
    IN  /\ ws[session_id].pc = "synthesizing"
        /\ response' = [Respond("ws_research", session_id, 0) EXCEPT
                           !.completions = syn.requests + con.requests,
                           !.conflicts = <<con.result>>]
        /\ IF Truthy(con.result)
           THEN /\ ws' = [ws EXCEPT ![session_id] =
                             [Emit(session_id, "conflict") EXCEPT
                                 !.pc = "conflict",
                                 !.synthesized = <<syn.result>>,
                                 !.conflicts = <<con.result>>]]
                /\ UNCHANGED sessions
           ELSE WsStore(session_id, ws[session_id], research_data, syn.result)
        /\ UNCHANGED <<files, clock, requests, call>>

\* the handler resumes after the conflict event
WsResume(session_id) ==
    /\ ws[session_id].pc = "conflict"
    /\ WsStore(session_id, ws[session_id], ws[session_id].research_data[1],
               ws[session_id].synthesized[1])
    /\ response' = Respond("ws_research", session_id, 0)
    /\ UNCHANGED <<files, clock, requests, call>>


(***************************************************************************)
(* Inputs: company names, provider outcomes, paths and values              *)
(***************************************************************************)
Acme == <<"Acme">>

ProviderError == [kind |-> "error", text |-> <<>>]

Text(ts) == [kind |-> "text", text |-> ts]

\* the ways a provider wraps a JSON document v in its answer
Bare(v) == Text(<<ValueTok(v)>>)

Fenced(v) == Text(<<Tok("fence"), Tok("json"), Tok("ws"), ValueTok(v), Tok("ws"), Tok("fence")>>)

FencedNoTag(v) == Text(<<Tok("ws"), Tok("fence"), Tok("ws"), ValueTok(v), Tok("fence"), Tok("prose")>>)

Chatty(v) == Text(<<Tok("prose"), Tok("fence"), Tok("json"), ValueTok(v), Tok("fence")>>)

Prose == Text(<<Tok("prose")>>)

Words(w) == List(<<Str(<<w>>)>>)

\* a synthesis as the prompt of synthesize_research asks for it
SynthesisObject ==
    Dict([k \in {"company_overview", "products_services", "potential_conflicts"} |->
             CASE k = "company_overview" -> Str(<<"Acme makes widgets">>)
               [] k = "products_services" -> Words("widgets")
               [] OTHER -> List(<<>>)])

\* an account plan as the prompt of generate_plan asks for it
PlanObject ==
    Dict([k \in {"executive_summary", "engagement_strategy", "risks_and_challenges"} |->
             CASE k = "executive_summary" -> Str(<<"summary">>)
               [] k = "engagement_strategy" ->
                     Dict([j \in {"approach", "next_steps"} |->
                              IF j = "approach" THEN Str(<<"direct">>) ELSE Words("call")])
               [] OTHER -> Words("churn")])

\* the same plan with a metadata block made up by the provider
PlanWithMetadata ==
    SetItem(PlanObject, "metadata",
            Dict([k \in {"version", "author"} |->
                     IF k = "version" THEN Str(<<"9", ".", "9">>) ELSE Str(<<"model">>)]))

ConflictList == Words("Source 1 claims X while Source 3 claims Y")

SynthOutcomes ==
    {ProviderError, Prose, Bare(SynthesisObject), Fenced(SynthesisObject),
     FencedNoTag(SynthesisObject), Chatty(SynthesisObject), Bare(ConflictList),
     Bare(Str(<<"n/a">>)), Bare(None)}

ConflictOutcomes ==
    {ProviderError, Prose, Bare(ConflictList), Fenced(ConflictList),
     Bare(List(<<>>)), Bare(SynthesisObject)}

PlanOutcomes ==
    {ProviderError, Prose, Bare(PlanObject), Fenced(PlanObject),
     Bare(PlanWithMetadata), Chatty(PlanObject), Bare(ConflictList), Bare(None)}

\* what the Search Provider does with one query
SearchError == [kind |-> "error", n |-> 0]

Malformed == [kind |-> "malformed", n |-> 0]

Results(n) == [kind |-> "results", n |-> n]

MaxResults == 6

SearchOutcomes == {SearchError, Malformed} \cup {Results(n) : n \in 0..MaxResults}

\* the outcomes that make the batches handed to the Synthesizer
MaxUsablePerQuery == 2

BatchOutcomes == {SearchError} \cup {Results(n) : n \in 0..MaxUsablePerQuery}

PathABC == <<"a", ".", "b", ".", "c">>

PathNextSteps == <<"engagement_strategy", ".", "next_steps">>

PathOwnerName == <<"engagement_strategy", ".", "owner", ".", "name">>

PathVersion == <<"metadata", ".", "version">>

PathMetadata == <<"metadata">>

PathThroughText == <<"executive_summary", ".", "detail">>

Paths == {PathABC, PathNextSteps, PathOwnerName, PathVersion, PathMetadata, PathThroughText}

Values == {Words("Schedule demo"), Str(<<"1", ".", "9">>), Str(<<"soon">>), Dict(EmptyMap)}

\* a list field given as one string, character by character
Letters == Str(<<"A", "P", "I">>)

\* the syntheses handed to generate_summary
Syntheses ==
    {SynthesisObject,
     DegradedSynthesis(<<>>),
     SetItem(SynthesisObject, "potential_conflicts", ConflictList)}
    \cup {SetItem(SynthesisObject, k, Letters) : k \in ListFields}
    \cup {SetItem(SynthesisObject, k, None) : k \in ListFields}

\* documents handed to the Editor as they are: a plan at a given version
PlanAt(version) ==
    SetItem(PlanObject, "metadata",
            Dict([k \in {"company_name", "generated_at", "version"} |->
                     CASE k = "company_name" -> Str(Acme)
                       [] k = "generated_at" -> IsoFormat(0)
                       [] OTHER -> Str(version)]))

Documents == {PlanAt(<<"1", ".", "9">>), PlanAt(<<"2", ".", "9">>), PlanAt(<<"1", ".", "1">>)}

(***************************************************************************)
(* The stages called on their own: a call leaves its arguments and its     *)
(* result in call.  The Editor works on the document the Generator or the  *)
(* previous edit left.                                                     *)
(***************************************************************************)
MaxUpdates == 2

StageCollect(company_name, outcomes) ==
    LET r == research_company(company_name, outcomes)
    IN  /\ call = NoCall
        /\ call' = [op |-> "research_company", company_name |-> company_name,
                    outcomes |-> outcomes, raised |-> r.raised,
                    result |-> r.research_data, sent |-> r.sent]
        /\ UNCHANGED <<sessions, files, clock, requests, response, ws>>

StageSynthesize(company_name, outcomes, outcome) ==
    LET research_data == research_company(company_name, outcomes).research_data
        r == synthesize_research(research_data, outcome)
    IN  /\ call = NoCall
        /\ call' = [op |-> "synthesize_research", research_data |-> research_data,
                    outcome |-> outcome, raised |-> r.raised, result |-> r.result,
                    requests |-> r.requests, prompt |-> r.prompt]
        /\ UNCHANGED <<sessions, files, clock, requests, response, ws>>

StageConflicts(company_name, outcomes, outcome) ==
    LET research_data == research_company(company_name, outcomes).research_data
        r == identify_conflicts(research_data, outcome)
    IN  /\ call = NoCall
        /\ call' = [op |-> "identify_conflicts", research_data |-> research_data,
                    outcome |-> outcome, raised |-> r.raised, result |-> r.result,
                    requests |-> r.requests, prompt |-> r.prompt]
        /\ UNCHANGED <<sessions, files, clock, requests, response, ws>>

StageGenerate(company_name, outcome) ==
    /\ call = NoCall
    /\ call' = [op |-> "generate_plan", company_name |-> company_name,
                outcome |-> outcome, now |-> clock,
                raised |-> generate_plan(company_name, outcome, clock).raised,
                requests |-> generate_plan(company_name, outcome, clock).requests,
                plan |-> generate_plan(company_name, outcome, clock).plan, updates |-> 0]
    /\ UNCHANGED <<sessions, files, clock, requests, response, ws>>

StageUpdate(section_path, new_content) ==
    /\ call.op \in {"generate_plan", "update_section"}
    /\ call.updates < MaxUpdates
    /\ LET r == update_section(call.plan, section_path, new_content, clock)
       IN  call' = [op |-> "update_section", before |-> call.plan,
                    section_path |-> section_path, new_content |-> new_content,
                    now |-> clock, raised |-> r.raised, plan |-> r.plan,
                    updates |-> call.updates + 1]
    /\ UNCHANGED <<sessions, files, clock, requests, response, ws>>

StageSummarize(synthesized_data) ==
    LET r == generate_summary(synthesized_data)
    IN  /\ call = NoCall
        /\ call' = [op |-> "generate_summary", synthesized_data |-> synthesized_data,
                    raised |-> r.raised, requests |-> r.requests, lines |-> r.lines]
        /\ UNCHANGED <<sessions, files, clock, requests, response, ws>>

\* save_plan of the document the Generator or the Editor left, into an
\* empty directory, then load_plan of the file written
StageRoundTrip ==
    LET saved  == save_plan([f \in {} |-> <<>>], call.plan, clock)
        loaded == load_plan(saved.dir, saved.filepath)
    IN  /\ call.op \in {"generate_plan", "update_section"}
        /\ call' = [op |-> "load_plan", document |-> call.plan,
                    saved |-> saved.raised = "",
                    raised |-> IF saved.raised # "" THEN saved.raised ELSE loaded.raised,
                    plan |-> IF saved.raised # "" THEN None ELSE loaded.plan]
        /\ UNCHANGED <<sessions, files, clock, requests, response, ws>>

\* update_section on a document of the caller
StageEdit(account_plan, section_path, new_content) ==
    /\ call = NoCall
    /\ LET r == update_section(account_plan, section_path, new_content, clock)
       IN  call' = [op |-> "update_section", before |-> account_plan,
                    section_path |-> section_path, new_content |-> new_content,
                    now |-> clock, raised |-> r.raised, plan |-> r.plan,
                    updates |-> MaxUpdates]
    /\ UNCHANGED <<sessions, files, clock, requests, response, ws>>

\* a stage is called from the idle state; time passes before a call and
\* between the edits of a document
NextStages ==
    \/ /\ call.op \in {"none", "generate_plan", "update_section"}
       /\ Tick
    \/ /\ call = NoCall
       /\ \E outcomes \in [1..Len(queries) -> SearchOutcomes] : StageCollect(Acme, outcomes)
    \/ /\ call = NoCall
       /\ \E outcomes \in [1..Len(queries) -> BatchOutcomes], outcome \in SynthOutcomes :
             StageSynthesize(Acme, outcomes, outcome)
    \/ /\ call = NoCall
       /\ \E outcomes \in [1..Len(queries) -> BatchOutcomes], outcome \in ConflictOutcomes :
             StageConflicts(Acme, outcomes, outcome)
    \/ /\ call = NoCall
       /\ \E outcome \in PlanOutcomes : StageGenerate(Acme, outcome)
    \/ \E section_path \in Paths, new_content \in Values :
          StageUpdate(section_path, new_content)
    \/ /\ call = NoCall
       /\ \E synthesized_data \in Syntheses : StageSummarize(synthesized_data)
    \/ StageRoundTrip
    \/ /\ call = NoCall
       /\ \E account_plan \in Documents, section_path \in Paths, new_content \in Values :
             StageEdit(account_plan, section_path, new_content)

SpecStages == Init /\ [][NextStages]_vars

(***************************************************************************)
(* The application: requests arrive in any order, for any session          *)
(***************************************************************************)
\* every query finds two results
AllFound == [q \in 1..Len(queries) |-> Results(2)]

OneFound == [q \in 1..Len(queries) |-> IF q = 1 THEN Results(1) ELSE SearchError]

NoneFound == [q \in 1..Len(queries) |-> SearchError]

\* what the providers do during one research request
ResearchScenarios ==
    {<<AllFound, Bare(SynthesisObject), Bare(ConflictList)>>,
     <<OneFound, Prose, Bare(List(<<>>))>>,
     <<NoneFound, Bare(SynthesisObject), ProviderError>>}

\* the updates requested: a list at an existing leaf, a new metadata block, a
\* version that is no numeral, and a path through a string
UpdateRequests ==
    {<<PathNextSteps, Words("Schedule demo")>>, <<PathMetadata, Dict(EmptyMap)>>,
     <<PathVersion, Str(<<"soon">>)>>, <<PathThroughText, Str(<<"soon">>)>>}

Next ==
    \/ Tick
    \/ \E s \in SessionIds, answered \in BOOLEAN : Chat(s, answered)
    \/ \E s \in SessionIds, scenario \in ResearchScenarios :
          Research(s, Acme, scenario[1], scenario[2], scenario[3])
    \/ \E s \in SessionIds, outcome \in {Bare(PlanObject), ProviderError}, saveOk \in BOOLEAN :
          GeneratePlan(s, Acme, outcome, saveOk)
    \/ \E s \in SessionIds, update \in UpdateRequests, saveOk \in BOOLEAN :
          UpdatePlan(s, update[1], update[2], saveOk)
    \/ \E s \in SessionIds : ResetSession(s)

Spec == Init /\ [][Next]_vars

(***************************************************************************)
(* The application with duplex channels: the steps of the channel          *)
(* handlers interleave with each other and with the HTTP requests          *)
(***************************************************************************)
NextDuplex ==
    \/ \E s \in SessionIds : WsOpen(s)
    \/ \E s \in SessionIds : WsDisconnect(s)
    \/ \E s \in SessionIds, answered \in BOOLEAN : WsChat(s, answered)
    \/ \E s \in SessionIds : WsResearch(s, Acme)
    \/ \E s \in SessionIds, scenario \in ResearchScenarios : WsCollect(s, scenario[1])
    \/ \E s \in SessionIds, scenario \in ResearchScenarios :
          WsSynthesize(s, scenario[2], scenario[3])
    \/ \E s \in SessionIds : WsResume(s)
    \/ \E s \in SessionIds, scenario \in ResearchScenarios :
          Research(s, Acme, scenario[1], scenario[2], scenario[3])
    \/ \E s \in SessionIds : GeneratePlan(s, Acme, Bare(PlanObject), TRUE)
    \/ \E s \in SessionIds : UpdatePlan(s, PathNextSteps, Words("Schedule demo"), TRUE)
    \/ \E s \in SessionIds : ResetSession(s)

SpecDuplex == Init /\ [][NextDuplex]_vars

(***************************************************************************)
(* Properties of the stages (checked under SpecStages)                     *)
(***************************************************************************)
\* the provider call or the parse of its answer fails
Unparsed(outcome) == ParseCompletion(outcome).raised # ""

\* the answer parses to a JSON object
ParsesToObject(outcome) ==
    ~Unparsed(outcome) /\ ParseCompletion(outcome).value.kind = "dict"

AllUsable(sources) == \A i \in 1..Len(sources) : ~sources[i].error

AllErrors(sources) == \A i \in 1..Len(sources) : sources[i].error

\* C1: synthesize never raises and always returns a record that contains
\* sources_analyzed; when the provider call or the parse fails, or the answer
\* is JSON that is not an object, the record also contains error and
\* company_overview; two usable sources and a prose answer give
\* sources_analyzed == 2.
C1_SynthesizeNeverRaises ==
    call.op = "synthesize_research" =>
        /\ call.raised = ""
        /\ Has(call.result, "sources_analyzed")
        /\ ~ParsesToObject(call.outcome) =>
              Has(call.result, "error") /\ Has(call.result, "company_overview")
        /\ (call.outcome = Prose /\ Len(call.research_data.sources) = 2
                /\ AllUsable(call.research_data.sources)) =>
              call.result.items["sources_analyzed"] = Num(2)

C1_Witness ==
    /\ call.op = "synthesize_research"
    /\ call.outcome = Prose
    /\ Len(call.research_data.sources) = 2
    /\ AllUsable(call.research_data.sources)
    /\ Has(call.result, "error")
    /\ call.result.items["sources_analyzed"] = Num(2)

\* C2: synthesize over a batch in which every source is an error record
\* returns, without raising, a record with sources_analyzed == 0 and an error
\* field.
C2_AllErrorBatch ==
    (/\ call.op = "synthesize_research"
     /\ call.research_data.sources # <<>>
     /\ AllErrors(call.research_data.sources)) =>
        /\ call.raised = ""
        /\ Has(call.result, "sources_analyzed")
        /\ call.result.items["sources_analyzed"] = Num(0)
        /\ Has(call.result, "error")

\* C3: detect_conflicts over a batch with fewer than two usable sources
\* returns the empty list without sending a request to the Completion
\* Provider.
C3_FewUsableNoRequest ==
    (/\ call.op = "identify_conflicts"
     /\ Len(Usable(call.research_data.sources)) < 2) =>
        /\ call.result = List(<<>>)
        /\ call.requests = 0

\* the number of records the queries from q on returned
RECURSIVE Returned(_, _)
Returned(outcomes, q) ==
    IF q > Len(queries) THEN 0
    ELSE Returned(outcomes, q + 1) +
         (IF outcomes[q].kind # "results" THEN 1
          ELSE IF outcomes[q].n < max_sources THEN outcomes[q].n ELSE max_sources)

RecordsOf(sources, query) == SelectSeq(sources, LAMBDA src : src.query = query)

\* C7: collect never raises and returns a batch whose total_sources equals
\* the length of its sources list and the number of records the queries
\* returned, error records included; a failed query contributes exactly one
\* error record and all five queries are sent.
C7_CollectNeverRaises ==
    call.op = "research_company" =>
        /\ call.raised = ""
        /\ call.result.total_sources = Len(call.result.sources)
        /\ call.result.total_sources = Returned(call.outcomes, 1)
        /\ call.sent = queries
        /\ \A q \in 1..Len(queries) :
              call.outcomes[q].kind # "results" =>
                 /\ Len(RecordsOf(call.result.sources, queries[q])) = 1
                 /\ RecordsOf(call.result.sources, queries[q])[1].error

C7_Witness ==
    /\ call.op = "research_company"
    /\ call.outcomes[2] = SearchError
    /\ call.outcomes[3] = Results(MaxResults)
    /\ call.outcomes[4] = Malformed
    /\ call.result.total_sources = Len(call.result.sources)
    /\ call.result.total_sources >= max_sources + 2

\* the metadata block of a generated document
FreshMetadata(company_name, now) ==
    Dict([k \in {"company_name", "generated_at", "version"} |->
             CASE k = "company_name" -> Str(company_name)
               [] k = "generated_at" -> IsoFormat(now)
               [] OTHER              -> Str(<<"1", ".", "0">>)])

\* the degraded document: an error and a metadata block without a version
IsDegradedPlan(plan, company_name, now) ==
    /\ plan.kind = "dict"
    /\ DOMAIN plan.items = {"error", "metadata"}
    /\ plan.items["metadata"].kind = "dict"
    /\ DOMAIN plan.items["metadata"].items = {"company_name", "generated_at"}
    /\ plan.items["metadata"].items["company_name"] = Str(company_name)
    /\ plan.items["metadata"].items["generated_at"] = IsoFormat(now)

\* C8 as claimed: generate never raises; when the provider returns parseable
\* JSON the metadata of the result is exactly {company_name, generated_at,
\* version 1.0}; when the provider call or the parse fails the result is
\* {error, metadata{company_name, generated_at}} with no version.
C8_ParseableGetsMetadata ==
    call.op = "generate_plan" =>
        /\ call.raised = ""
        /\ ~Unparsed(call.outcome) =>
              /\ Has(call.plan, "metadata")
              /\ call.plan.items["metadata"] = FreshMetadata(call.company_name, call.now)
        /\ Unparsed(call.outcome) => IsDegradedPlan(call.plan, call.company_name, call.now)

\* C8 as amended: generate never raises; when the provider returns JSON that
\* parses to an object the metadata of the result is exactly {company_name,
\* generated_at, version 1.0}, replacing any metadata of the provider; when
\* the provider call fails, the parse fails or the parsed value is not an
\* object the result is {error, metadata{company_name, generated_at}} with no
\* version.
C8_ObjectGetsMetadata ==
    call.op = "generate_plan" =>
        /\ call.raised = ""
        /\ ParsesToObject(call.outcome) =>
              /\ Has(call.plan, "metadata")
              /\ call.plan.items["metadata"] = FreshMetadata(call.company_name, call.now)
              /\ ~Has(call.plan, "error")
        /\ ~ParsesToObject(call.outcome) =>
              IsDegradedPlan(call.plan, call.company_name, call.now)

C8_Witness ==
    /\ call.op = "generate_plan"
    /\ call.outcome = Bare(PlanWithMetadata)
    /\ call.plan.items["metadata"] = FreshMetadata(Acme, call.now)
    /\ call.plan.items["executive_summary"] = Str(<<"summary">>)

\* the value found by following keys from node
RECURSIVE AtPath(_, _)
AtPath(node, keys) ==
    IF keys = <<>> THEN [found |-> TRUE, value |-> node]
    ELSE IF Has(node, Head(keys)) THEN AtPath(node.items[Head(keys)], Tail(keys))
    ELSE [found |-> FALSE, value |-> None]

StampKeys == {"last_updated", "version"}

\* nothing of the metadata block changes but last_updated and version
MetadataKept(before, after) ==
    IF before.kind = "dict"
    THEN /\ after.kind = "dict"
         /\ DOMAIN after.items \ StampKeys = DOMAIN before.items \ StampKeys
         /\ \A k \in DOMAIN before.items \ StampKeys : after.items[k] = before.items[k]
    ELSE after = before

\* C4: apply_update with a dot-separated path whose intermediate keys are
\* absent creates a mapping at each absent key that holds just the next key
\* of the path, ends with the value at the full path equal to v, and leaves
\* every other key of the document unchanged, apart from
\* metadata.last_updated and metadata.version.
C4_UpsertKeepsSiblings ==
    (/\ call.op = "update_section"
     /\ Len(Split(call.section_path)) >= 2
     /\ ~Has(call.before, Split(call.section_path)[1])) =>
        LET keys == Split(call.section_path)
        IN  /\ AtPath(call.plan, keys).found
            /\ AtPath(call.plan, keys).value = call.new_content
            /\ \A i \in 1..(Len(keys) - 1) :
                  /\ AtPath(call.plan, SubSeq(keys, 1, i)).value.kind = "dict"
                  /\ DOMAIN AtPath(call.plan, SubSeq(keys, 1, i)).value.items = {keys[i + 1]}
            /\ DOMAIN call.plan.items = DOMAIN call.before.items \cup {keys[1]}
            /\ \A k \in DOMAIN call.before.items \ {"metadata"} :
                  call.plan.items[k] = call.before.items[k]
            /\ Has(call.before, "metadata") =>
                  MetadataKept(call.before.items["metadata"], call.plan.items["metadata"])

C4_Witness ==
    /\ call.op = "update_section"
    /\ call.section_path = PathABC
    /\ ~Has(call.before, "a")
    /\ Has(call.before, "engagement_strategy")
    /\ call.raised = ""
    /\ AtPath(call.plan, <<"a", "b", "c">>).value = call.new_content
    /\ call.plan.items["engagement_strategy"] = call.before.items["engagement_strategy"]

\* the decimal numeral t plus exactly one tenth, as a decimal numeral
PlusTenth(t) ==
    LET ip   == NatOfDigits(DigitsIn(t, 1, PointAt(t) - 1))
        frac == IF PointAt(t) >= Len(t) THEN <<0>> ELSE DigitsIn(t, PointAt(t) + 1, Len(t))
        d1   == frac[1] + 1
    IN  CharsOf(DigitsOfNat(ip + (d1 \div 10))) \o <<".">>
            \o CharsOf(<<d1 % 10>> \o Tail(frac))

\* the version an update starts from: the one it writes when its path is
\* metadata.version, else the one of the document
PriorVersion(plan, keys, new_content) ==
    IF keys = <<"metadata", "version">> THEN new_content
    ELSE AtPath(plan, <<"metadata", "version">>).value

\* C5: every successful apply_update leaves metadata.version equal to its
\* prior value plus exactly 0.1, written as a base-10 decimal string.
C5_VersionPlusTenth ==
    (/\ call.op = "update_section"
     /\ call.raised = ""
     /\ Split(call.section_path)[1] # "metadata" \/ Split(call.section_path) = <<"metadata", "version">>
     /\ AtPath(call.before, <<"metadata", "version">>).found
     /\ PriorVersion(call.before, Split(call.section_path), call.new_content).kind = "str"
     /\ IsNumeral(PriorVersion(call.before, Split(call.section_path), call.new_content).text)) =>
        AtPath(call.plan, <<"metadata", "version">>).value =
            Str(PlusTenth(PriorVersion(call.before, Split(call.section_path), call.new_content).text))

(***************************************************************************)
(* Properties of the application (checked under Spec)                      *)
(***************************************************************************)
CarriesNameAndVersion(doc) ==
    /\ AtPath(doc, <<"metadata", "company_name">>).found
    /\ AtPath(doc, <<"metadata", "version">>).found

\* C6: every account plan stored in a session context or saved as a snapshot
\* carries both metadata.company_name and metadata.version.
C6_StoredPlansCarryVersion ==
    /\ \A s \in DOMAIN sessions :
          sessions[s].context.account_plan # Absent =>
             CarriesNameAndVersion(sessions[s].context.account_plan[1])
    /\ \A f \in DOMAIN files : CarriesNameAndVersion(load_plan(files, f).plan)

\* the session holds nothing under key: it is unknown or its context has no
\* such entry
HoldsNo(session_id, key) ==
    \/ session_id \notin DOMAIN sessions
    \/ sessions[session_id].context[key] = Absent

\* the request is answered 400 and nothing else happens
Rejected ==
    /\ response'.status = 400
    /\ response'.completions = 0
    /\ response'.searches = 0
    /\ response'.saved = <<>>
    /\ files' = files
    /\ sessions' = sessions

\* C9: a plan-generation request for a session that holds no synthesized
\* data, and an update request for a session that holds no account plan, is
\* answered 400 without a provider call, a snapshot or a change of the
\* session store; no other generate or update request is answered 400.
C9_MissingStateRejected ==
    [][/\ (requests' # requests /\ response'.op = "generate") =>
             IF HoldsNo(response'.session_id, "synthesized_data") THEN Rejected
             ELSE response'.status # 400
       /\ (requests' # requests /\ response'.op = "update") =>
             IF HoldsNo(response'.session_id, "account_plan") THEN Rejected
             ELSE response'.status # 400]_vars

C9_Witness ==
    /\ response.op = "generate"
    /\ response.status = 400
    /\ response.session_id \in DOMAIN sessions
    /\ sessions[response.session_id].history # <<>>
    /\ sessions[response.session_id].context = EmptyContext
    /\ files = <<>>

\* C10: each save produces its own snapshot file that no later save changes.
C10_SnapshotsNeverChange ==
    [][\A f \in DOMAIN files : f \in DOMAIN files' /\ files'[f] = files[f]]_vars

(***************************************************************************)
(* Properties of the application with duplex channels (checked under       *)
(* SpecDuplex)                                                             *)
(***************************************************************************)
\* the entry of session s in the store, or nothing
EntryOf(store, s) == IF s \in DOMAIN store THEN <<store[s]>> ELSE <<>>

\* C11: Session isolation.  In every step, whatever the interleaving of HTTP
\* requests and of the steps of duplex research actions, the entry of a
\* session (its context and its conversation history) and the channel of a
\* session change only when the step belongs to a request that addresses
\* that session id.
C11_SessionsIsolated ==
    [][\A s \in SessionIds :
          (EntryOf(sessions', s) # EntryOf(sessions, s) \/ ws'[s] # ws[s])
              => response'.session_id = s]_vars

\* a research request for s2 was served while the research action on the
\* channel of s1 was suspended, and s1 still has an empty context
C11_Witness ==
    /\ ws["s1"].pc \in {"synthesizing", "conflict"}
    /\ response.op = "research"
    /\ response.session_id = "s2"
    /\ "s2" \in DOMAIN sessions
    /\ sessions["s2"].context.synthesized_data # Absent
    /\ "s1" \in DOMAIN sessions
    /\ sessions["s1"].context = EmptyContext

(***************************************************************************)
(* Properties of the session store (checked under Spec)                    *)
(***************************************************************************)
\* the step serves a request of kind op that addresses the existing session s
Serves(op, s) ==
    /\ requests' # requests
    /\ response'.op = op
    /\ response'.session_id = s
    /\ s \in DOMAIN sessions

IsPrefix(a, b) == Len(a) <= Len(b) /\ SubSeq(b, 1, Len(a)) = a

\* C12: Session lifecycle.  A session id present in the store is never
\* removed; a reset of an existing session leaves its entry in the store with
\* an empty conversation history and an empty context; a request that gets
\* an existing session (chat, research) does not replace it: chat keeps the
\* context and only appends to the history, research keeps the history and
\* the account plan of the context.
C12_SessionLifecycle ==
    [][\A s \in DOMAIN sessions :
          /\ s \in DOMAIN sessions'
          /\ Serves("reset", s) =>
                /\ sessions'[s].history = <<>>
                /\ sessions'[s].context = EmptyContext
          /\ Serves("chat", s) =>
                /\ sessions'[s].context = sessions[s].context
                /\ IsPrefix(sessions[s].history, sessions'[s].history)
          /\ Serves("research", s) =>
                /\ sessions'[s].history = sessions[s].history
                /\ sessions'[s].context.account_plan = sessions[s].context.account_plan]_vars

\* a reset was served for a session of the store after two other requests,
\* and the session is empty
C12_Witness ==
    /\ response.op = "reset"
    /\ requests = MaxRequests
    /\ response.session_id \in DOMAIN sessions
    /\ sessions[response.session_id] = NewSession

(***************************************************************************)
(* Further properties of the stages (checked under SpecStages)             *)
(***************************************************************************)
\* C13: Conflict detection degrades in band.  identify_conflicts never
\* raises and its result is always a list; when the request is sent, an
\* answer that parses to a value that is not a list gives the empty list,
\* and a provider error or an answer that does not parse gives a list of
\* exactly one string, the error description.
C13_ConflictsAlwaysList ==
    call.op = "identify_conflicts" =>
        /\ call.raised = ""
        /\ call.result.kind = "list"
        /\ (call.requests = 1 /\ ~Unparsed(call.outcome)
               /\ ParseCompletion(call.outcome).value.kind # "list")
              => call.result = List(<<>>)
        /\ (call.requests = 1 /\ Unparsed(call.outcome))
              => /\ Len(call.result.elems) = 1
                 /\ call.result.elems[1].kind = "str"

\* the provider answered the conflict request with a JSON object
C13_Witness ==
    /\ call.op = "identify_conflicts"
    /\ call.requests = 1
    /\ call.outcome = Bare(SynthesisObject)
    /\ call.result = List(<<>>)

\* the version string of a document
VersionOf(plan) == AtPath(plan, <<"metadata", "version">>).value

\* C14: An update at path "engagement_strategy.next_steps" with the value
\* ["Schedule demo"] on a document whose metadata.version is "1.9" leaves the
\* document with metadata.version "2.0".
C14_NineteenToTwenty ==
    (/\ call.op = "update_section"
     /\ VersionOf(call.before) = Str(<<"1", ".", "9">>)
     /\ call.section_path = PathNextSteps
     /\ call.new_content = Words("Schedule demo"))
        => /\ call.raised = ""
           /\ VersionOf(call.plan) = Str(<<"2", ".", "0">>)

\* the update of the scenario was applied to a document at version "1.9"
C14_Witness ==
    /\ call.op = "update_section"
    /\ VersionOf(call.before) = Str(<<"1", ".", "9">>)
    /\ call.section_path = PathNextSteps
    /\ call.new_content = Words("Schedule demo")
    /\ AtPath(call.plan, Split(PathNextSteps)).value = Words("Schedule demo")

\* C15: The summary renders a list field that holds a bare string as one
\* single item, the string, never as one item per character, and
\* generate_summary sends no provider request.
C15_StringIsOneItem ==
    call.op = "generate_summary" =>
        /\ call.requests = 0
        /\ \A k \in ListFields :
              (Has(call.synthesized_data, k) /\ call.synthesized_data.items[k].kind = "str")
                  => call.lines[k] = <<call.synthesized_data.items[k]>>

\* the position of a query in the fixed list
QueryIndex(query) == CHOOSE q \in 1..Len(queries) : queries[q] = query

\* C16: collect sends exactly five queries, in the fixed order overview,
\* products and services, news, market position, financial performance;
\* each query contributes at most max_sources records, and the records of
\* sources come in the order of their queries, those of one query in the
\* order the provider ranked them.
C16_FiveQueriesInOrder ==
    call.op = "research_company" =>
        /\ Len(call.sent) = 5
        /\ call.sent = <<"company overview", "products services", "recent news",
                         "market position competitors", "financial performance revenue">>
        /\ \A q \in 1..Len(queries) :
              Len(RecordsOf(call.result.sources, queries[q])) <= max_sources
        /\ \A i, j \in 1..Len(call.result.sources) :
              i < j =>
                 LET a == call.result.sources[i]
                     b == call.result.sources[j]
                 IN  \/ QueryIndex(a.query) < QueryIndex(b.query)
                     \/ (a.query = b.query /\ a.rank < b.rank)

\* the provider returned more than max_sources results for the first and the
\* last query
C16_Witness ==
    /\ call.op = "research_company"
    /\ call.outcomes[1] = Results(MaxResults)
    /\ call.outcomes[5] = Results(MaxResults)
    /\ MaxResults > max_sources
    /\ Len(RecordsOf(call.result.sources, queries[1])) = max_sources
    /\ call.result.sources[Len(call.result.sources)].query = queries[5]

Merged(store, s, conflicts) ==
    /\ s \in DOMAIN store
    /\ store[s].context.synthesized_data # Absent
    /\ Get(store[s].context.synthesized_data[1], "potential_conflicts", None) = conflicts

\* the step ends a research action on the channel of s: the handler goes
\* back to waiting for a message
CompletesOn(s) ==
    /\ ws[s].pc \in {"synthesizing", "conflict"}
    /\ ws'[s].pc = "receive"

\* C18: Whenever identify_conflicts returns a non-empty list during a
\* research invocation, the synthesized_data the invocation stores in the
\* context of the session has that list under potential_conflicts, for the
\* HTTP endpoint and for the duplex channel alike.
C18_ConflictsMerged ==
    [][/\ (/\ requests' # requests
           /\ response'.op = "research"
           /\ response'.status = 200
           /\ Truthy(response'.conflicts[1]))
          => Merged(sessions', response'.session_id, response'.conflicts[1])
       /\ \A s \in SessionIds :
             (CompletesOn(s) /\ ws[s].pc = "conflict")
                => Merged(sessions', s, ws[s].conflicts[1])]_vars

\* the events of a research action that ran to its end
EventOrders ==
    {<<"status", "status", "research_complete">>,
     <<"status", "status", "conflict", "research_complete">>}

\* C19: Event order of a duplex research action.  The events sent since the
\* action started are always the first events of status, status, conflict,
\* research_complete or of status, status, research_complete; the conflict
\* event is sent exactly when identify_conflicts returned a non-empty list;
\* the step that sends research_complete sends it once, as the last event
\* of an action that ran to its end, and leaves the research_data and the
\* synthesized_data of the action in the context of the session.
C19_EventOrder ==
    /\ [](\A s \in SessionIds :
             \/ ws[s].events = <<"response">>
             \/ \E order \in EventOrders : IsPrefix(ws[s].events, order))
    /\ [][\A s \in SessionIds :
             /\ (ws[s].pc = "synthesizing" /\ ws'[s].pc \in {"conflict", "receive"})
                   => (Truthy(response'.conflicts[1])
                          <=> \E i \in 1..Len(ws'[s].events) : ws'[s].events[i] = "conflict")
             /\ CompletesOn(s)
                   => /\ ws'[s].events \in EventOrders
                      /\ ws'[s].events = ws[s].events \o <<"research_complete">>
                      /\ sessions'[s].context.research_data = ws[s].research_data
                      /\ sessions'[s].context.synthesized_data # Absent]_vars

\* a research action with a conflict event ran to its end
C19_Witness ==
    /\ ws["s1"].pc = "receive"
    /\ ws["s1"].events = <<"status", "status", "conflict", "research_complete">>
    /\ sessions["s1"].context.research_data # Absent
    /\ sessions["s1"].context.synthesized_data # Absent

(***************************************************************************)
(* Failure handling of the stages (checked under SpecStages)               *)
(***************************************************************************)
\* the number of times query was sent
TimesSent(sent, query) == Len(SelectSeq(sent, LAMBDA x : x = query))

\* C20: No retry.  One invocation of synthesize_research, identify_conflicts
\* or generate_plan sends at most one completion request, and a request the
\* provider fails gives the degraded value of the stage at once (the degraded
\* synthesis, the list of one error string, the degraded document); one
\* invocation of research_company sends each of its queries once, and a
\* query the provider fails gives one error record.
C20_NoRetry ==
    /\ call.op \in {"synthesize_research", "identify_conflicts", "generate_plan"}
          => /\ call.requests <= 1
             /\ call.raised = ""
    /\ (call.op = "synthesize_research" /\ call.outcome = ProviderError)
          => call.result = DegradedSynthesis(call.research_data.sources)
    /\ (call.op = "identify_conflicts" /\ call.requests = 1 /\ call.outcome = ProviderError)
          => call.result = List(<<Str(<<"Error identifying conflicts">>)>>)
    /\ (call.op = "generate_plan" /\ call.outcome = ProviderError)
          => IsDegradedPlan(call.plan, call.company_name, call.now)
    /\ call.op = "research_company"
          => \A q \in 1..Len(queries) :
                /\ TimesSent(call.sent, queries[q]) = 1
                /\ call.outcomes[q].kind # "results"
                      => Len(RecordsOf(call.result.sources, queries[q])) = 1

\* the Search Provider failed the first and the third query of a collection
C20_Witness ==
    /\ call.op = "research_company"
    /\ call.outcomes[1] = SearchError
    /\ call.outcomes[3] = SearchError
    /\ call.outcomes[5] = Results(1)
    /\ TimesSent(call.sent, queries[1]) = 1
    /\ call.result.sources[1].error

(***************************************************************************)
(* Properties of the context of a session                                  *)
(***************************************************************************)
\* the step serves an update request for session s that ends in an error
UpdateFails(s) ==
    /\ Serves("update", s)
    /\ response'.status = 500

\* C21: Failed updates leave the plan alone.  When an update request ends in
\* an error (the path goes through a value that is not a mapping, the value
\* written makes metadata or metadata.version unusable, or the save of the
\* snapshot fails), the account plan stored in the session, with its
\* metadata.version and metadata.last_updated, is the same as before the
\* request.
C21_FailedUpdateKeepsPlan ==
    [][\A s \in DOMAIN sessions :
          UpdateFails(s) =>
             sessions'[s].context.account_plan = sessions[s].context.account_plan]_vars

\* the synthesis was made from the batch: it counts the sources of the batch
SameInvocation(research_data, synthesized_data) ==
    Get(synthesized_data, "sources_analyzed", None) = Num(Len(research_data.sources))

\* C22: Context consistency.  In every reachable state the context of every
\* session holds research_data and synthesized_data either both or neither,
\* when it holds them they come from the same research invocation, and it
\* holds an account_plan only when it holds synthesized_data.
C22_ContextConsistent ==
    \A s \in DOMAIN sessions :
        LET context == sessions[s].context
        IN  /\ (context.research_data = Absent) <=> (context.synthesized_data = Absent)
            /\ context.research_data # Absent
                  => SameInvocation(context.research_data[1], context.synthesized_data[1])
            /\ context.account_plan # Absent => context.synthesized_data # Absent

\* a duplex research action stored a batch of ten sources and its synthesis
\* in the context of a session
C22_Witness ==
    /\ "s1" \in DOMAIN sessions
    /\ ws["s1"].pc = "receive"
    /\ ws["s1"].events \in EventOrders
    /\ sessions["s1"].context.research_data # Absent
    /\ Len(sessions["s1"].context.research_data[1].sources) = 10
    /\ sessions["s1"].context.synthesized_data # Absent

\* C23: Reset against research in flight.  Once a reset of a session has
\* completed, no research invocation that started before the reset leaves an
\* artifact in the context of the session: a duplex research action that was
\* suspended while the reset ran does not store its research_data and
\* synthesized_data when it resumes.
C23_ResetDropsResearchInFlight ==
    [][\A s \in SessionIds :
          (CompletesOn(s) /\ ws[s].reset_seen)
             => /\ sessions'[s].context.research_data = sessions[s].context.research_data
                /\ sessions'[s].context.synthesized_data = sessions[s].context.synthesized_data]_vars

====
